---------------------------- MODULE Spec2Model ----------------------------
(***************************************************************************)
(* Bootstrap of the golem node (golemapp.py): the click command `start`,   *)
(* from the raw argument list to one of the three hand-offs (version       *)
(* print, crossbar worker, Node start).                                    *)
(*                                                                         *)
(* One behaviour of the model is one invocation of the process.  The       *)
(* command line is drawn from every token sequence of at most MaxArgs      *)
(* tokens over Tokens; the environment (persisted configuration, whether   *)
(* the store is readable, whether the worker module resolves, whether the  *)
(* reactor module is already imported, whether the CPU information is      *)
(* complete) is drawn at the step that first reads it.                     *)
(***************************************************************************)
EXTENDS Naturals, Sequences, FiniteSets

(***************************************************************************)
(* Bounds                                                                  *)
(***************************************************************************)
MaxArgs == 4

\* Calls of the patched getLogger in one behaviour.
MaxCalls == 3

(***************************************************************************)
(* Optional values: None is the empty tuple, Some(v) the one-tuple.        *)
(***************************************************************************)
None == <<>>
Some(v) == <<v>>
IsNone(x) == Len(x) = 0
IsSome(x) == Len(x) = 1
Get(x) == x[1]

(***************************************************************************)
(* The command line                                                        *)
(***************************************************************************)
ProgName == "golemapp"
SENTINEL == "crossbar.worker.process"

\* Tokens an argument can be.  Three are values ("127.0.0.1:61000" a
\* well-formed host:port, "10.0.0.1" a well-formed host, "8545" an integer),
\* SENTINEL is the reserved worker module name, and
\* "-mcrossbar.worker.process" is -m with its value attached.
Tokens ==
    { "--version", "-m", SENTINEL, "-u", "-mcrossbar.worker.process",
      "--rpc-address", "127.0.0.1:61000", "--node-address", "10.0.0.1",
      "--start-geth", "--start-geth-port", "8545", "--protocol_id",
      "--node" }

ArgLists == UNION { [1..n -> Tokens] : n \in 0..MaxArgs }

(***************************************************************************)
(* Declared options, in declaration order (the decorators of start, top    *)
(* to bottom).  Options none of whose spellings is in Tokens keep their    *)
(* defaults in every run of the model; those among them that are not       *)
(* exposed and have no callback (klass, multiprocessing_fork, cbdir,       *)
(* worker, type, realm, title) leave no trace and are not listed.          *)
(***************************************************************************)
ParamDecl ==
    << "payments", "monitor", "datadir", "protocol_id", "node_address",
       "rpc_address", "peer", "start_geth", "start_geth_port",
       "geth_address", "version", "m", "node", "u", "loglevel" >>

ParamNames == { ParamDecl[i] : i \in 1..Len(ParamDecl) }

\* Spelling -> parameter, for every spelling the decorators declare.
OptParam(o) ==
    CASE o \in {"--payments", "--nopayments"} -> "payments"
      [] o \in {"--monitor", "--nomonitor"}   -> "monitor"
      [] o \in {"--datadir", "-d"}            -> "datadir"
      [] o = "--protocol_id"                  -> "protocol_id"
      [] o \in {"--node-address", "-a"}       -> "node_address"
      [] o \in {"--rpc-address", "-r"}        -> "rpc_address"
      [] o \in {"--peer", "-p"}               -> "peer"
      [] o = "--start-geth"                   -> "start_geth"
      [] o = "--start-geth-port"              -> "start_geth_port"
      [] o = "--geth-address"                 -> "geth_address"
      [] o \in {"--version", "-v"}            -> "version"
      [] o = "-m"                             -> "m"
      [] o = "--node"                         -> "node"
      [] o = "-u"                             -> "u"
      [] o = "--loglevel"                     -> "loglevel"

LongOpts ==
    { "--payments", "--nopayments", "--monitor", "--nomonitor", "--datadir",
      "--protocol_id", "--node-address", "--rpc-address", "--peer",
      "--start-geth", "--start-geth-port", "--geth-address", "--version",
      "--node", "--loglevel" }

ShortOpts == { "-d", "-a", "-r", "-p", "-v", "-m", "-u" }

\* is_flag=True options (and the boolean pair options) take no value.
FlagParams == { "payments", "monitor", "start_geth", "version", "u" }

\* The eager set with is_eager left off --start-geth.
EagerParamsWithoutStartGeth == { "protocol_id" }

\* The eager set with is_eager left off --protocol_id.
EagerParamsWithoutProtocolId == { "start_geth" }

\* is_eager=True options.
EagerParams == { "protocol_id", "start_geth" }

\* Options with expose_value=False never reach start()'s arguments.
HiddenParams == { "protocol_id", "node", "u" }

\* The keys of ctx.params: the options whose value is exposed.
ExposedParams == ParamNames \ HiddenParams

\* The parser treats an argument as an option when it starts with '-' and is
\* longer than one character.
IsOptLike(arg) ==
    arg \in LongOpts \cup ShortOpts \cup {"-mcrossbar.worker.process"}

\* A short-option argument '-xREST': its option '-x' and the attached REST
\* (None when the argument is just '-x').
ShortHead(arg) ==
    IF arg = "-mcrossbar.worker.process" THEN "-m" ELSE arg

ShortRest(arg) ==
    IF arg = "-mcrossbar.worker.process" THEN Some(SENTINEL) ELSE None

(***************************************************************************)
(* click's OptionParser: one pass over the arguments, left to right.       *)
(* opts holds the last raw value given to each parameter, order the        *)
(* parameters in the order their options occurred, largs the positional    *)
(* arguments, err the first parser error.                                  *)
(***************************************************************************)
NoErr == "ok"

ParserInit ==
    [ opts  |-> [p \in ParamNames |-> None],
      order |-> <<>>,
      largs |-> <<>>,
      err   |-> NoErr ]

Store(st, p, v) ==
    [st EXCEPT !.opts[p] = Some(v), !.order = Append(@, p)]

RECURSIVE ParseArgs(_, _)
ParseArgs(rargs, st) ==
    IF st.err # NoErr \/ rargs = <<>> THEN st
    ELSE
      LET arg  == Head(rargs)
          rest == Tail(rargs)
      IN
      IF ~IsOptLike(arg)
      THEN \* positional: interspersed arguments are collected
           ParseArgs(rest, [st EXCEPT !.largs = Append(@, arg)])
      ELSE
        LET opt      == IF arg \in LongOpts THEN arg ELSE ShortHead(arg)
            attached == IF arg \in LongOpts THEN None ELSE ShortRest(arg)
            p        == OptParam(opt)
        IN
        IF p \in FlagParams
        THEN ParseArgs(rest, Store(st, p, TRUE))
        ELSE IF IsSome(attached)
        THEN ParseArgs(rest, Store(st, p, Get(attached)))
        ELSE IF rest = <<>>
        THEN [st EXCEPT !.err = "option requires an argument"]
        ELSE ParseArgs(Tail(rest), Store(st, p, Head(rest)))

\* Position of the first occurrence of x in s, 0 when absent.
RECURSIVE IndexFrom(_, _, _)
IndexFrom(s, x, i) ==
    IF i > Len(s) THEN 0
    ELSE IF s[i] = x THEN i
    ELSE IndexFrom(s, x, i + 1)

Index(s, x) == IndexFrom(s, x, 1)

Contains(s, x) == \E i \in 1..Len(s) : s[i] = x

(***************************************************************************)
(* iter_params_for_processing: the declared parameters sorted by           *)
(* (not is_eager, position of first occurrence on the command line, or     *)
(* infinity), the sort being stable: the eager ones that occurred, in      *)
(* order of first occurrence, the other eager ones in declaration order,   *)
(* then the same for the ones that are not eager.                          *)
(***************************************************************************)
IsEager(p) == p \in EagerParams

\* s without the repetitions of its elements, first occurrences kept.
RECURSIVE Dedup(_, _)
Dedup(s, acc) ==
    IF s = <<>> THEN acc
    ELSE IF Contains(acc, Head(s)) THEN Dedup(Tail(s), acc)
    ELSE Dedup(Tail(s), Append(acc, Head(s)))

ProcessingOrder(order) ==
    LET invoked  == Dedup(order, <<>>)
        Eager(p) == IsEager(p)
        Lazy(p)  == ~IsEager(p)
        Absent(p) == ~Contains(invoked, p)
        AbsentEager(p) == Eager(p) /\ Absent(p)
        AbsentLazy(p)  == Lazy(p) /\ Absent(p)
    IN  SelectSeq(invoked, Eager) \o SelectSeq(ParamDecl, AbsentEager)
          \o SelectSeq(invoked, Lazy) \o SelectSeq(ParamDecl, AbsentLazy)

(***************************************************************************)
(* Types and callbacks of the options                                      *)
(***************************************************************************)
\* click.INT / int: int(text) succeeds on decimal text only.
IsIntText(tok) == tok = "8545"
IntOf(tok) == IF tok = "8545" THEN 8545 ELSE 0

\* argsparser.parse_rpc_address: "host:port" -> endpoint, else BadParameter.
IsHostPort(tok) == tok = "127.0.0.1:61000"
ParseRpcAddress(tok) ==
    IF tok = "127.0.0.1:61000"
    THEN [address |-> "127.0.0.1", port |-> 61000]
    ELSE [address |-> "", port |-> 0]

\* argsparser.parse_node_addr: a host, else BadParameter.
IsHost(tok) == tok = "10.0.0.1"

\* PROTOCOL_CONST.patch_protocol_id(ctx, param, value): patches the shared
\* protocol constant with the value given on the command line.
PatchProtocolId(ctx, value) ==
    IF IsNone(value) THEN ctx
    ELSE [ctx EXCEPT !.protocolId = value, !.patches = @ + 1]

\* argsparser.enforce_start_geth_used(ctx, param, value): a port is accepted
\* only when ctx.params holds start_geth = True.
EnforceStartGethUsed(ctx, value) ==
    IF IsSome(value) /\ ~ctx.params["start_geth"]
    THEN "start-geth-port makes sense only together with --start-geth"
    ELSE NoErr

\* Defaults of the declared options.
DefaultDatadir == "default"

ParamDefault(p) ==
    CASE p \in {"payments", "monitor"}          -> TRUE
      [] p \in {"start_geth", "version", "u"}   -> FALSE
      [] p = "datadir"                          -> Some(DefaultDatadir)
      [] OTHER                                  -> None

DefaultParams == [ p \in ExposedParams |-> ParamDefault(p) ]

\* What the file system holds at the path given for --datadir.
DatadirKinds == { "missing", "directory", "file", "unwritable", "unreadable" }

\* A callback invocation, with the protocol constant it could read.
CbEntry(ctx, p) == [cb |-> p, seen |-> ctx.protocolId]

Called(ctx, p) == [ctx EXCEPT !.cbLog = Append(@, CbEntry(ctx, p))]

Fail(ctx, msg) == [ctx EXCEPT !.err = msg]

\* if self.expose_value: ctx.params[self.name] = value
SetParam(ctx, p, v) ==
    IF p \in ExposedParams THEN [ctx EXCEPT !.params[p] = v] ELSE ctx

(***************************************************************************)
(* Parameter.handle_parse_result for one parameter: consume the raw value  *)
(* (or the default), convert it to the option's type, run the callback,    *)
(* store the result in ctx.params.  ctx.protocolId is PROTOCOL_CONST,       *)
(* ctx.fs what the file system holds at the datadir path.                  *)
(***************************************************************************)
HandleParseResult(ctx, p, raw) ==
    CASE p \in FlagParams ->
           SetParam(ctx, p, IF IsSome(raw) THEN Get(raw) ELSE ParamDefault(p))
      [] p = "protocol_id" ->
           IF IsSome(raw) /\ ~IsIntText(Get(raw))
           THEN Fail(ctx, "protocol_id: not a valid integer")
           ELSE LET v == IF IsSome(raw) THEN Some(IntOf(Get(raw))) ELSE None
                IN  PatchProtocolId(Called(ctx, p), v)
      [] p = "node_address" ->
           IF IsSome(raw) /\ ~IsHost(Get(raw))
           THEN Fail(Called(ctx, p), "node-address: invalid network address")
           ELSE SetParam(Called(ctx, p), p, raw)
      [] p = "rpc_address" ->
           IF IsSome(raw) /\ ~IsHostPort(Get(raw))
           THEN Fail(Called(ctx, p), "rpc-address: invalid network address")
           ELSE SetParam(Called(ctx, p), p,
                    IF IsSome(raw) THEN Some(ParseRpcAddress(Get(raw)))
                    ELSE None)
      [] p = "start_geth_port" ->
           IF IsSome(raw) /\ ~IsIntText(Get(raw))
           THEN Fail(ctx, "start-geth-port: not a valid integer")
           ELSE LET v == IF IsSome(raw) THEN Some(IntOf(Get(raw))) ELSE None
                    e == EnforceStartGethUsed(ctx, v)
                IN  IF e # NoErr THEN Fail(Called(ctx, p), e)
                    ELSE SetParam(Called(ctx, p), p, v)
      [] p \in {"peer", "geth_address"} ->
           SetParam(Called(ctx, p), p, None)
      [] p = "datadir" ->
           CASE ctx.fs = "file" ->
                  Fail(ctx, "datadir: directory is a file")
             [] ctx.fs = "unwritable" ->
                  Fail(ctx, "datadir: directory is not writable")
             [] ctx.fs = "unreadable" ->
                  Fail(ctx, "datadir: directory is not readable")
             [] OTHER ->
                  SetParam(ctx, p, IF IsSome(raw) THEN raw ELSE ParamDefault(p))
      [] OTHER ->
           SetParam(ctx, p, IF IsSome(raw) THEN raw ELSE ParamDefault(p))

CtxInit(protocol, fs) ==
    [ params     |-> DefaultParams,
      fs         |-> fs,
      cbLog      |-> <<>>,
      protocolId |-> protocol,
      patches    |-> 0,
      err        |-> NoErr ]

RECURSIVE ProcessFrom(_, _, _, _)
ProcessFrom(ctx, todo, i, opts) ==
    IF ctx.err # NoErr \/ i > Len(todo) THEN ctx
    ELSE ProcessFrom(HandleParseResult(ctx, todo[i], opts[todo[i]]),
                     todo, i + 1, opts)

\* BaseCommand.parse_args after the parser: every parameter in processing
\* order, then the check for unexpected positional arguments.
ProcessParams(st, protocol, fs) ==
    LET ctx == ProcessFrom(CtxInit(protocol, fs), ProcessingOrder(st.order),
                           1, st.opts)
    IN  IF ctx.err = NoErr /\ st.largs # <<>>
        THEN Fail(ctx, "got unexpected extra argument")
        ELSE ctx

(***************************************************************************)
(* Process-wide state and the collaborators                                *)
(***************************************************************************)
Reactor == "twisted.internet.reactor"

\* The module names start() writes into sys.modules.
ShimModules ==
    { "win32com.gen_py.os", "win32com.gen_py.pywintypes",
      "win32com.gen_py.pythoncom" }

\* sys.modules when the command is entered: with or without the reactor.
InitialModules == { {"golem"}, {"golem", Reactor} }

\* Persisted configurations AppConfig.load_config can return.
PersistedStores ==
    { [ rpc_address |-> "localhost", rpc_port |-> 61000,
        node_address |-> Some("192.168.0.2"), node_name |-> "alice",
        seed_port |-> 40102 ],
      [ rpc_address |-> "127.0.0.1", rpc_port |-> 61001,
        node_address |-> None, node_name |-> "bob",
        seed_port |-> 40103 ] }

\* list.pop(i) and list.remove(x), on 1-based sequences.
Pop(s, i) == [ j \in 1..(Len(s) - 1) |-> IF j < i THEN s[j] ELSE s[j + 1] ]

RemoveFirst(s, x) == IF Contains(s, x) THEN Pop(s, Index(s, x)) ELSE s

(***************************************************************************)
(* start_crossbar_worker, the argument-list part: drop the first '-m' and  *)
(* the argument after it, then the first '-u'.  list.index raises          *)
(* ValueError when '-m' is absent; the second pop raises IndexError when   *)
(* '-m' was the last argument (the first pop has then already happened).   *)
(***************************************************************************)
\* The mutation with the second pop left out.
MutateArgvOnePop(a) ==
    LET idx == Index(a, "-m") IN
    IF idx = 0 THEN [argv |-> a, err |-> "ValueError"]
    ELSE [argv |-> RemoveFirst(Pop(a, idx), "-u"), err |-> NoErr]

MutateArgv(a) ==
    LET idx == Index(a, "-m") IN
    IF idx = 0 THEN [argv |-> a, err |-> "ValueError"]
    ELSE IF idx = Len(a) THEN [argv |-> Pop(a, idx), err |-> "IndexError"]
    ELSE [argv |-> RemoveFirst(Pop(Pop(a, idx), idx), "-u"), err |-> NoErr]

\* delete_reactor() that deletes nothing.
DeleteReactorNoop(mods) == mods

\* delete_reactor()
DeleteReactor(mods) == mods \ {Reactor}

\* if version:
VersionRequested(prm) == prm["version"]

\* if m == 'crossbar.worker.process':
IsWorkerModuleAny(m) == IsSome(m)
IsWorkerModule(m) == m = Some(SENTINEL)

\* The overlay with the port assignment left out.
OverlayKeepsPort(desc, rpc_address, node_address) ==
    LET d1 == IF IsSome(rpc_address)
              THEN [desc EXCEPT !.rpc_address = Get(rpc_address).address]
              ELSE desc
    IN  IF IsSome(node_address)
        THEN [d1 EXCEPT !.node_address = node_address]
        ELSE d1

\* The overlay writing the node address into the wrong field.
OverlayWritesNodeName(desc, rpc_address, node_address) ==
    LET d1 == IF IsSome(rpc_address)
              THEN [desc EXCEPT !.rpc_address = Get(rpc_address).address,
                                !.rpc_port = Get(rpc_address).port]
              ELSE desc
    IN  IF IsSome(node_address)
        THEN [d1 EXCEPT !.node_address = node_address,
                        !.node_name = Get(node_address)]
        ELSE d1

\* The CLI overlay on the loaded descriptor.
Overlay(desc, rpc_address, node_address) ==
    LET d1 == IF IsSome(rpc_address)
              THEN [desc EXCEPT !.rpc_address = Get(rpc_address).address,
                                !.rpc_port = Get(rpc_address).port]
              ELSE desc
    IN  IF IsSome(node_address)
        THEN [d1 EXCEPT !.node_address = node_address]
        ELSE d1

\* The arguments Node is constructed with.
NodeArgs(prm, desc) ==
    [ datadir            |-> prm["datadir"],
      config_desc        |-> desc,
      transaction_system |-> prm["payments"],
      peers              |-> prm["peer"],
      use_monitor        |-> prm["monitor"],
      start_geth         |-> prm["start_geth"],
      start_geth_port    |-> prm["start_geth_port"],
      geth_address       |-> prm["geth_address"] ]

\* Hosts the process runs on; the win32com modules, and the packaged
\* executable that needs their placeholders, belong to Windows.
Platforms == { "Windows", "Linux" }

PackagingPlatform == "Windows"

(***************************************************************************)
(* The logging module as monkey_patched_getLogger sees it: cls is the      *)
(* process-wide default logger class, saved the wrapper's orig_class,      *)
(* before the class registered when the call in progress was made, result  *)
(* what the original accessor returned, returned what the wrapper          *)
(* returned, delegated the calls of the original accessor made by the      *)
(* call in progress, calls the calls of the wrapper so far.                *)
(***************************************************************************)
LoggerClasses == { "Logger", "SLogger", "GolemLogger" }

LoggerNames == { "golemapp", "eth.chain" }

LoggingIdle(c) ==
    [ phase     |-> "idle",
      cls       |-> c,
      saved     |-> None,
      before    |-> None,
      name      |-> None,
      result    |-> None,
      returned  |-> None,
      delegated |-> 0,
      calls     |-> 0 ]

\* orig_class = logging.getLoggerClass()
CaptureLoggerClass(l, n) ==
    [ l EXCEPT !.phase = "captured", !.saved = Some(l.cls),
               !.before = Some(l.cls), !.name = Some(n), !.result = None,
               !.returned = None, !.delegated = 0, !.calls = @ + 1 ]

\* result = orig_getLogger(*args, **kwargs): the original accessor registers
\* the class c and returns a logger of that class.
Delegate(l, c) ==
    [ l EXCEPT !.phase = "delegated", !.cls = c,
               !.result = Some([name |-> Get(l.name), cls |-> c]),
               !.delegated = @ + 1 ]

\* orig_getLogger(*args, **kwargs) raises, having registered the class c (the
\* class it found when it registered none): the exception leaves the wrapper
\* at once, which has no try/finally around the call.
DelegateRaises(l, c) ==
    [ l EXCEPT !.phase = "raised", !.cls = c, !.delegated = @ + 1 ]

\* logging.setLoggerClass(orig_class); return result
RestoreAndReturn(l) ==
    [ l EXCEPT !.phase = "returned", !.cls = Get(l.saved),
               !.returned = l.result ]

(***************************************************************************)
(* State                                                                   *)
(***************************************************************************)
VARIABLES
    pc,             \* position of the process
    argv,           \* sys.argv
    argv0,          \* sys.argv as the process was started
    sysModules,     \* names registered in sys.modules
    sysModules0,    \* sys.modules as the command was entered
    protocolId,     \* PROTOCOL_CONST: None is the built-in id
    patches,        \* number of patches of PROTOCOL_CONST
    parser,         \* result of the option parser
    params,         \* ctx.params: the arguments of start()
    cbLog,          \* option callbacks, in the order they ran
    persisted,      \* what AppConfig.load_config returned
    configDesc,     \* config_desc
    trace,          \* calls made by the body of start(), in order
    logLines,       \* lines written through the golemapp logger
    stdout,         \* lines printed
    node,           \* arguments of the constructed Node
    error,          \* the UsageError message or the exception raised
    exitCode,       \* exit status of the process
    platform,       \* platform.system() of the host, once the body runs
    lg              \* the logging module and the getLogger call in progress

vars ==
    << pc, argv, argv0, sysModules, sysModules0, protocolId, patches, parser,
       params, cbLog, persisted, configDesc, trace, logLines, stdout, node,
       error, exitCode, platform, lg >>

Init ==
    /\ pc = "parse"
    /\ \E a \in ArgLists : argv = <<ProgName>> \o a
    /\ argv0 = argv
    /\ sysModules \in InitialModules
    /\ sysModules0 = sysModules
    /\ protocolId = None
    /\ patches = 0
    /\ parser = ParserInit
    /\ params = DefaultParams
    /\ cbLog = <<>>
    /\ persisted = None
    /\ configDesc = None
    /\ trace = <<>>
    /\ logLines = <<>>
    /\ stdout = <<>>
    /\ node = None
    /\ error = NoErr
    /\ exitCode = None
    /\ platform = None
    /\ lg = LoggingIdle("Logger")

Did(e) == trace' = Append(trace, e)

\* start.main(): the option parser over sys.argv[1:].
Parse ==
    /\ pc = "parse"
    /\ \E st \in {ParseArgs(Tail(argv), ParserInit)} :
       /\ parser' = st
       /\ IF st.err = NoErr
          THEN pc' = "process" /\ UNCHANGED << error, exitCode >>
          ELSE pc' = "usage_error" /\ error' = st.err /\ exitCode' = Some(2)
    /\ UNCHANGED << platform, lg >>
    /\ UNCHANGED << argv, argv0, sysModules, sysModules0, protocolId, patches,
                    params, cbLog, persisted, configDesc, trace, logLines,
                    stdout, node >>

\* Process with the errors of the parameters swallowed.
ProcessIgnoringErrors ==
    /\ pc = "process"
    /\ \E fs \in DatadirKinds :
       \E ctx \in {ProcessParams(parser, protocolId, fs)} :
       /\ params' = ctx.params
       /\ cbLog' = ctx.cbLog
       /\ protocolId' = ctx.protocolId
       /\ patches' = patches + ctx.patches
    /\ pc' = "body"
    /\ UNCHANGED << platform, lg >>
    /\ UNCHANGED << argv, argv0, sysModules, sysModules0, parser, persisted,
                    configDesc, trace, logLines, stdout, node, error,
                    exitCode >>

\* Conversion and callbacks of every parameter; a UsageError exits with 2.
Process ==
    /\ pc = "process"
    /\ \E fs \in DatadirKinds :
       \E ctx \in {ProcessParams(parser, protocolId, fs)} :
       /\ params' = ctx.params
       /\ cbLog' = ctx.cbLog
       /\ protocolId' = ctx.protocolId
       /\ patches' = patches + ctx.patches
       /\ IF ctx.err = NoErr
          THEN pc' = "body" /\ UNCHANGED << error, exitCode >>
          ELSE pc' = "usage_error" /\ error' = ctx.err /\ exitCode' = Some(2)
    /\ UNCHANGED << platform, lg >>
    /\ UNCHANGED << argv, argv0, sysModules, sysModules0, parser, persisted,
                    configDesc, trace, logLines, stdout, node >>

\* freeze_support(); delete_reactor(), on the host the process runs on.
Prologue ==
    /\ pc = "body"
    /\ sysModules' = DeleteReactor(sysModules)
    /\ trace' = trace \o <<"freeze_support", "delete_reactor">>
    /\ pc' = "version_check"
    /\ \E host \in Platforms : platform' = Some(host)
    /\ UNCHANGED lg
    /\ UNCHANGED << argv, argv0, sysModules0, protocolId, patches, parser,
                    params, cbLog, persisted, configDesc, logLines, stdout,
                    node, error, exitCode >>

\* PrintVersion without its return.
PrintVersionFallsThrough ==
    /\ pc = "version_check"
    /\ VersionRequested(params)
    /\ stdout' = Append(stdout, "GOLEM version")
    /\ Did("print_version")
    /\ pc' = "load_config"
    /\ UNCHANGED << platform, lg >>
    /\ UNCHANGED << argv, argv0, sysModules, sysModules0, protocolId, patches,
                    parser, params, cbLog, persisted, configDesc, logLines,
                    node, error, exitCode >>

\* if version: print(...); return 0
PrintVersion ==
    /\ pc = "version_check"
    /\ VersionRequested(params)
    /\ stdout' = Append(stdout, "GOLEM version")
    /\ Did("print_version")
    /\ pc' = "returned"
    /\ exitCode' = Some(0)
    /\ error' = error
    /\ UNCHANGED << platform, lg >>
    /\ UNCHANGED << argv, argv0, sysModules, sysModules0, protocolId, patches,
                    parser, params, cbLog, persisted, configDesc, logLines,
                    node >>

\* The three sys.modules assignments.
Shim ==
    /\ pc = "version_check"
    /\ ~VersionRequested(params)
    /\ sysModules' = sysModules \cup ShimModules
    /\ pc' = "load_config"
    /\ UNCHANGED << platform, lg >>
    /\ UNCHANGED << argv, argv0, sysModules0, protocolId, patches, parser,
                    params, cbLog, persisted, configDesc, trace, logLines,
                    stdout, node, error, exitCode >>

\* config_desc.init_from_app_config(AppConfig.load_config(datadir))
LoadConfig ==
    /\ pc = "load_config"
    /\ \E store \in PersistedStores :
         /\ persisted' = Some(store)
         /\ configDesc' = Some(store)
    /\ Did("load_config")
    /\ pc' = "overlay"
    /\ UNCHANGED << platform, lg >>
    /\ UNCHANGED << argv, argv0, sysModules, sysModules0, protocolId, patches,
                    parser, params, cbLog, logLines, stdout, node, error, exitCode >>

\* LoadConfigFails with the exception caught and the descriptor filled from
\* defaults.
LoadConfigFailsCaught ==
    /\ pc = "load_config"
    /\ \E store \in PersistedStores :
         /\ persisted' = Some(store)
         /\ configDesc' = Some(store)
    /\ Did("load_config")
    /\ pc' = "overlay"
    /\ error' = "ConfigLoadError"
    /\ UNCHANGED << platform, lg >>
    /\ UNCHANGED << argv, argv0, sysModules, sysModules0, protocolId, patches,
                    parser, params, cbLog, logLines, stdout, node, exitCode >>

\* AppConfig.load_config raises: the store is unreadable or corrupt.
LoadConfigFails ==
    /\ pc = "load_config"
    /\ Did("load_config")
    /\ pc' = "raised"
    /\ exitCode' = Some(1)
    /\ error' = "ConfigLoadError"
    /\ UNCHANGED << platform, lg >>
    /\ UNCHANGED << argv, argv0, sysModules, sysModules0, protocolId, patches,
                    parser, params, cbLog, persisted, configDesc, logLines,
                    stdout, node >>

\* if rpc_address: ... if node_address: ...
ApplyOverlay ==
    /\ pc = "overlay"
    /\ configDesc' = Some(Overlay(Get(configDesc), params["rpc_address"],
                                  params["node_address"]))
    /\ pc' = "dispatch"
    /\ UNCHANGED << platform, lg >>
    /\ UNCHANGED << argv, argv0, sysModules, sysModules0, protocolId, patches,
                    parser, params, cbLog, persisted, trace, logLines, stdout,
                    node, error, exitCode >>

\* if m == 'crossbar.worker.process': start_crossbar_worker(m), up to the
\* import: the mutation of sys.argv.
WorkerArgv ==
    /\ pc = "dispatch"
    /\ IsWorkerModule(params["m"])
    /\ \E r \in {MutateArgv(argv)} :
       /\ argv' = r.argv
       /\ IF r.err = NoErr
          THEN pc' = "worker_import" /\ UNCHANGED << error, exitCode >>
          ELSE pc' = "raised" /\ error' = r.err /\ exitCode' = Some(1)
    /\ Did("start_crossbar_worker")
    /\ UNCHANGED << platform, lg >>
    /\ UNCHANGED << argv0, sysModules, sysModules0, protocolId, patches,
                    parser, params, cbLog, persisted, configDesc, logLines,
                    stdout, node >>

\* importlib.import_module(module) resolves the module.
WorkerImport ==
    /\ pc = "worker_import"
    /\ sysModules' = sysModules \cup {Get(params["m"])}
    /\ Did("import_module")
    /\ pc' = "worker_run"
    /\ UNCHANGED << platform, lg >>
    /\ UNCHANGED << argv, argv0, sysModules0, protocolId, patches, parser,
                    params, cbLog, persisted, configDesc, logLines, stdout,
                    node, error, exitCode >>

\* WorkerImportFails with the ImportError swallowed.
WorkerImportFailsSwallowed ==
    /\ pc = "worker_import"
    /\ Did("import_module")
    /\ pc' = "returned"
    /\ exitCode' = Some(0)
    /\ error' = "ImportError"
    /\ UNCHANGED << platform, lg >>
    /\ UNCHANGED << argv, argv0, sysModules, sysModules0, protocolId, patches,
                    parser, params, cbLog, persisted, configDesc, logLines,
                    stdout, node >>

\* importlib.import_module(module) raises ImportError.
WorkerImportFails ==
    /\ pc = "worker_import"
    /\ Did("import_module")
    /\ pc' = "raised"
    /\ exitCode' = Some(1)
    /\ error' = "ImportError"
    /\ UNCHANGED << platform, lg >>
    /\ UNCHANGED << argv, argv0, sysModules, sysModules0, protocolId, patches,
                    parser, params, cbLog, persisted, configDesc, logLines,
                    stdout, node >>

\* WorkerRun when the node branch is not under an else.
WorkerRunThenNode ==
    /\ pc = "worker_run"
    /\ Did("run")
    /\ pc' = "log_version"
    /\ UNCHANGED << platform, lg >>
    /\ UNCHANGED << argv, argv0, sysModules, sysModules0, protocolId, patches,
                    parser, params, cbLog, persisted, configDesc, logLines,
                    stdout, node, error, exitCode >>

\* module.run(), then start() returns.
WorkerRun ==
    /\ pc = "worker_run"
    /\ Did("run")
    /\ pc' = "returned"
    /\ exitCode' = Some(0)
    /\ error' = error
    /\ UNCHANGED << platform, lg >>
    /\ UNCHANGED << argv, argv0, sysModules, sysModules0, protocolId, patches,
                    parser, params, cbLog, persisted, configDesc, logLines,
                    stdout, node >>

\* else: config_logging(datadir, loglevel); install_reactor()
NodeSetup ==
    /\ pc = "dispatch"
    /\ ~IsWorkerModule(params["m"])
    /\ sysModules' = sysModules \cup {Reactor}
    /\ trace' = trace \o <<"config_logging", "install_reactor">>
    /\ pc' = "log_version"
    /\ UNCHANGED << platform, lg >>
    /\ UNCHANGED << argv, argv0, sysModules0, protocolId, patches, parser,
                    params, cbLog, persisted, configDesc, logLines, stdout,
                    node, error, exitCode >>

\* The diagnostics with log_platform_info() called where log_golem_version()
\* belongs.
LogPlatformInfoFirst ==
    /\ pc = "log_version"
    /\ logLines' = logLines \o
         << [line |-> "system", value |-> platform],
            [line |-> "cpu", value |-> None],
            [line |-> "memory", value |-> None] >>
    /\ Did("log_platform_info")
    /\ pc' = "log_platform"
    /\ UNCHANGED << platform, lg >>
    /\ UNCHANGED << argv, argv0, sysModules, sysModules0, protocolId, patches,
                    parser, params, cbLog, persisted, configDesc, stdout,
                    node, error, exitCode >>

\* log_golem_version()
LogGolemVersion ==
    /\ pc = "log_version"
    /\ logLines' = logLines \o
         << [line |-> "GOLEM Version", value |-> None],
            [line |-> "Protocol Version", value |-> protocolId],
            [line |-> "golem_messages Version", value |-> None] >>
    /\ Did("log_golem_version")
    /\ pc' = "log_platform"
    /\ UNCHANGED << platform, lg >>
    /\ UNCHANGED << argv, argv0, sysModules, sysModules0, protocolId, patches,
                    parser, params, cbLog, persisted, configDesc, stdout,
                    node, error, exitCode >>

\* log_platform_info(), every value available.
LogPlatformInfo ==
    /\ pc = "log_platform"
    /\ logLines' = logLines \o
         << [line |-> "system", value |-> platform],
            [line |-> "cpu", value |-> None],
            [line |-> "memory", value |-> None] >>
    /\ Did("log_platform_info")
    /\ pc' = "construct"
    /\ UNCHANGED << platform, lg >>
    /\ UNCHANGED << argv, argv0, sysModules, sysModules0, protocolId, patches,
                    parser, params, cbLog, persisted, configDesc, stdout,
                    node, error, exitCode >>

\* log_platform_info() when get_cpu_info() raises or its result lacks one of
\* the keys read: the exception leaves start().
LogPlatformInfoFails ==
    /\ pc = "log_platform"
    /\ logLines' = Append(logLines, [line |-> "system", value |-> platform])
    /\ Did("log_platform_info")
    /\ pc' = "raised"
    /\ exitCode' = Some(1)
    /\ error' = "KeyError"
    /\ UNCHANGED << platform, lg >>
    /\ UNCHANGED << argv, argv0, sysModules, sysModules0, protocolId, patches,
                    parser, params, cbLog, persisted, configDesc, stdout,
                    node >>

\* node = Node(datadir=..., config_desc=..., ...)
ConstructNode ==
    /\ pc = "construct"
    /\ node' = Some(NodeArgs(params, Get(configDesc)))
    /\ Did("Node")
    /\ pc' = "start_node"
    /\ UNCHANGED << platform, lg >>
    /\ UNCHANGED << argv, argv0, sysModules, sysModules0, protocolId, patches,
                    parser, params, cbLog, persisted, configDesc, logLines,
                    stdout, error, exitCode >>

\* node.start(), then start() returns.
StartNode ==
    /\ pc = "start_node"
    /\ Did("node.start")
    /\ pc' = "returned"
    /\ exitCode' = Some(0)
    /\ error' = error
    /\ UNCHANGED << platform, lg >>
    /\ UNCHANGED << argv, argv0, sysModules, sysModules0, protocolId, patches,
                    parser, params, cbLog, persisted, configDesc, logLines,
                    stdout, node >>

Next ==
    \/ Parse
    \/ Process
    \/ Prologue
    \/ PrintVersion
    \/ Shim
    \/ LoadConfig
    \/ LoadConfigFails
    \/ ApplyOverlay
    \/ WorkerArgv
    \/ WorkerImport
    \/ WorkerImportFails
    \/ WorkerRun
    \/ NodeSetup
    \/ LogGolemVersion
    \/ LogPlatformInfo
    \/ LogPlatformInfoFails
    \/ ConstructNode
    \/ StartNode

Spec == Init /\ [][Next]_vars

(***************************************************************************)
(* The logger-class guard.  The module installs monkey_patched_getLogger   *)
(* as slogging.SManager.getLogger when it is imported, so every later call *)
(* of getLogger runs the wrapper; the calls are independent of start().    *)
(***************************************************************************)
startVars ==
    << pc, argv, argv0, sysModules, sysModules0, protocolId, patches, parser,
       params, cbLog, persisted, configDesc, trace, logLines, stdout, node,
       error, exitCode, platform >>

LoggerInit ==
    /\ pc = "parse"
    /\ argv = <<ProgName>>
    /\ argv0 = argv
    /\ sysModules = {"golem"}
    /\ sysModules0 = sysModules
    /\ protocolId = None
    /\ patches = 0
    /\ parser = ParserInit
    /\ params = DefaultParams
    /\ cbLog = <<>>
    /\ persisted = None
    /\ configDesc = None
    /\ trace = <<>>
    /\ logLines = <<>>
    /\ stdout = <<>>
    /\ node = None
    /\ error = NoErr
    /\ exitCode = None
    /\ platform = None
    /\ \E c \in LoggerClasses : lg = LoggingIdle(c)

NoCallInProgress == lg.phase \in {"idle", "returned", "raised"}

\* Some other code registers a logger class between two calls.
SetLoggerClass ==
    /\ NoCallInProgress
    /\ \E c \in LoggerClasses : lg' = [lg EXCEPT !.cls = c, !.phase = "idle"]
    /\ UNCHANGED startVars

\* A call enters the wrapper, which reads the registered class.
GetLoggerEnter ==
    /\ NoCallInProgress
    /\ lg.calls < MaxCalls
    /\ \E n \in LoggerNames : lg' = CaptureLoggerClass(lg, n)
    /\ UNCHANGED startVars

\* The wrapper calls the original accessor, which registers a class of its
\* choice and returns a logger.
GetLoggerDelegate ==
    /\ lg.phase = "captured"
    /\ \E c \in LoggerClasses : lg' = Delegate(lg, c)
    /\ UNCHANGED startVars

\* The original accessor raises and the exception leaves the wrapper.
GetLoggerDelegateRaises ==
    /\ lg.phase = "captured"
    /\ \E c \in LoggerClasses : lg' = DelegateRaises(lg, c)
    /\ UNCHANGED startVars

\* The wrapper registers the class it read and returns the logger.
GetLoggerReturn ==
    /\ lg.phase = "delegated"
    /\ lg' = RestoreAndReturn(lg)
    /\ UNCHANGED startVars

LoggerNext ==
    \/ SetLoggerClass
    \/ GetLoggerEnter
    \/ GetLoggerDelegate
    \/ GetLoggerDelegateRaises
    \/ GetLoggerReturn

LoggerSpec == LoggerInit /\ [][LoggerNext]_vars

(***************************************************************************)
(* Properties                                                              *)
(***************************************************************************)
RECURSIVE Count(_, _)
Count(s, x) ==
    IF s = <<>> THEN 0
    ELSE (IF Head(s) = x THEN 1 ELSE 0) + Count(Tail(s), x)

\* The body of start() has been entered.
InBody == pc \notin {"parse", "process", "usage_error"}

\* The branch the run has taken, as seen from the calls it made.
PrintedVersion == Contains(trace, "print_version")
EnteredWorker == Contains(trace, "start_crossbar_worker")
EnteredNode == Contains(trace, "config_logging")

\* C1: the branch start() takes is decided by the version flag and the -m
\* value alone: a run prints the version only with version set (whatever -m
\* is), enters worker delegation only with version unset and -m equal to the
\* sentinel, enters node start-up only with version unset and -m absent or
\* different; a run past the dispatch point has entered exactly the branch
\* this table gives, whatever the other options are.
C1_DispatchIsFunctionOfVersionAndM ==
    LET v == params["version"]
        w == params["m"] = Some(SENTINEL)
        past == pc \in { "returned", "worker_import", "worker_run",
                         "log_version", "log_platform", "construct",
                         "start_node" }
    IN  /\ PrintedVersion => v
        /\ EnteredWorker => ~v /\ w
        /\ EnteredNode => ~v /\ ~w
        /\ past => /\ v => PrintedVersion /\ ~EnteredWorker /\ ~EnteredNode
                   /\ (~v /\ w) => EnteredWorker /\ ~EnteredNode
                   /\ (~v /\ ~w) => EnteredNode /\ ~EnteredWorker

\* version set together with the sentinel: the version is printed.
C1_Witness ==
    /\ pc = "returned"
    /\ params["version"]
    /\ params["m"] = Some(SENTINEL)
    /\ PrintedVersion

TerminalActions ==
    Count(trace, "print_version") + Count(trace, "run")
      + Count(trace, "node.start")

\* C2: a run performs at most one of the terminal actions (version print,
\* the delegate module's run(), Node.start()), a run that returns without
\* error performs exactly one, and neither a version print nor a worker
\* run() is followed by the construction of a Node.
C2_ExactlyOneTerminalAction ==
    /\ TerminalActions <= 1
    /\ pc = "returned" => TerminalActions = 1
    /\ Contains(trace, "Node") =>
         ~Contains(trace, "print_version") /\ ~Contains(trace, "run")

\* A run that delegated to the worker module and returned.
C2_Witness ==
    /\ pc = "returned"
    /\ Count(trace, "run") = 1
    /\ Count(trace, "node.start") = 0

\* C3: once start() is entered with the version flag set, the run returns
\* with status 0 and never loads the persisted configuration, imports a
\* worker module, constructs or starts a Node, or writes a log line.
C3_VersionShortCircuits ==
    (InBody /\ params["version"]) =>
        /\ pc \in {"body", "version_check", "returned"}
        /\ pc = "returned" => exitCode = Some(0) /\ PrintedVersion
        /\ ~Contains(trace, "load_config")
        /\ ~Contains(trace, "import_module")
        /\ ~Contains(trace, "Node")
        /\ ~Contains(trace, "node.start")
        /\ persisted = None /\ configDesc = None /\ node = None
        /\ logLines = <<>>

\* The version run has returned, with other options beside it.
C3_Witness ==
    /\ pc = "returned"
    /\ params["version"]
    /\ IsSome(params["rpc_address"])
    /\ exitCode = Some(0)

\* The version run has returned.
VersionReturned == pc = "returned" /\ params["version"]

\* C4 as stated: on the version path sys.modules, sys.argv and the config
\* descriptor are at the return what they were when start() was entered.
C4_VersionPathLeavesProcessStateUnchanged ==
    VersionReturned =>
        /\ sysModules = sysModules0
        /\ argv = argv0
        /\ configDesc = None

\* C4, amended: on the version path sys.argv and the config descriptor are
\* unchanged and nothing is added to sys.modules; delete_reactor(), which
\* runs before the version test, has removed 'twisted.internet.reactor' from
\* sys.modules when it was registered, and that is the only change.
C4_VersionPathOnlyDeletesReactor ==
    VersionReturned =>
        /\ sysModules = sysModules0 \ {Reactor}
        /\ argv = argv0
        /\ configDesc = None
        /\ stdout = <<"GOLEM version">>
        /\ exitCode = Some(0)

\* A version run that started with the reactor registered.
C4_Witness ==
    /\ VersionReturned
    /\ Reactor \in sysModules0
    /\ Reactor \notin sysModules

\* The elements of s at the positions in K, in order, from position j on.
RECURSIVE KeepAt(_, _, _)
KeepAt(s, K, j) ==
    IF j > Len(s) THEN <<>>
    ELSE (IF j \in K THEN <<s[j]>> ELSE <<>>) \o KeepAt(s, K, j + 1)

\* The argument-list mutation of start_crossbar_worker has completed.
ArgvMutated == pc \in {"worker_import", "worker_run"}

\* Position of the first '-m' of the original argument list.
FirstM == Index(argv0, "-m")

\* C5 as stated: when the argument list holds '-m' followed by its value,
\* the mutated list holds no '-m', not that value and no '-u', and is the
\* original list with exactly those arguments taken out.
C5_ArgvHasNoFlagValueOrU ==
    (/\ ArgvMutated
     /\ FirstM > 0 /\ FirstM < Len(argv0)
     /\ Some(argv0[FirstM + 1]) = params["m"]) =>
        LET val == argv0[FirstM + 1]
            Other(t) == t \notin {"-m", val, "-u"}
        IN  /\ ~Contains(argv, "-m")
            /\ ~Contains(argv, val)
            /\ ~Contains(argv, "-u")
            /\ argv = SelectSeq(argv0, Other)

\* C5, amended: the mutation removes the first '-m' of the argument list,
\* the argument right after it, and then the first '-u' left, and keeps
\* every other argument in its original relative order; when the list held
\* one '-m' and at most one '-u', the result holds neither.
C5_ArgvLosesFirstPairAndFirstU ==
    ArgvMutated =>
        LET i    == FirstM
            rest == { j \in 1..Len(argv0) : j \notin {i, i + 1} }
            us   == { j \in rest : argv0[j] = "-u" }
            u    == { j \in us : \A k \in us : j <= k }
        IN  /\ i > 0 /\ i < Len(argv0)
            /\ argv = KeepAt(argv0, rest \ u, 1)
            /\ (Count(argv0, "-m") = 1 /\ Count(argv0, "-u") <= 1) =>
                 ~Contains(argv, "-m") /\ ~Contains(argv, "-u")

\* '-m crossbar.worker.process -u' followed by another argument: only the
\* program name and that argument are left.
C5_Witness ==
    /\ pc = "worker_import"
    /\ argv0 = <<ProgName, "-m", SENTINEL, "-u", "--start-geth">>
    /\ argv = <<ProgName, "--start-geth">>

\* The raw values the command line gave to --rpc-address and --node-address.
CliRpc == parser.opts["rpc_address"]
CliNodeAddress == parser.opts["node_address"]

\* The overlay has run: the descriptor is the one the run goes on with.
Overlaid ==
    pc \in { "dispatch", "worker_import", "worker_run", "log_version",
             "log_platform", "construct", "start_node", "returned" }
      /\ IsSome(configDesc)

\* d carries the RPC endpoint and node address the overlay rule gives.
OverlayRuleHolds(d) ==
    LET A == Get(persisted) IN
    /\ IsSome(CliRpc) =>
         /\ CliRpc = Some("127.0.0.1:61000")
         /\ d.rpc_address = "127.0.0.1"
         /\ d.rpc_port = 61000
    /\ IsNone(CliRpc) =>
         /\ d.rpc_address = A.rpc_address
         /\ d.rpc_port = A.rpc_port
    /\ IsSome(CliNodeAddress) => d.node_address = CliNodeAddress
    /\ IsNone(CliNodeAddress) => d.node_address = A.node_address

\* C6: a CLI-supplied RPC endpoint replaces host and port of the persisted
\* one in the descriptor handed to Node, an absent one leaves the persisted
\* endpoint unchanged, and the same holds for the node address.
C6_OverlayOfRpcEndpointAndNodeAddress ==
    /\ Overlaid => OverlayRuleHolds(Get(configDesc))
    /\ IsSome(node) => OverlayRuleHolds(Get(node).config_desc)

\* A Node constructed with a CLI endpoint that differs from the persisted
\* one in the port.
C6_Witness ==
    /\ IsSome(node)
    /\ IsSome(CliRpc)
    /\ Get(persisted).rpc_port # 61000
    /\ Get(node).config_desc.rpc_port = 61000

\* d agrees with the persisted descriptor outside the overlaid fields.
OtherFieldsPersisted(d) ==
    /\ DOMAIN d = DOMAIN Get(persisted)
    /\ \A f \in DOMAIN d \ {"rpc_address", "rpc_port", "node_address"} :
         d[f] = Get(persisted)[f]

\* C7: whatever the flags, every field of the descriptor other than
\* rpc_address, rpc_port and node_address has its persisted value when the
\* descriptor is passed to Node (and from the load on).
C7_OtherFieldsKeepPersistedValues ==
    /\ IsSome(configDesc) => OtherFieldsPersisted(Get(configDesc))
    /\ IsSome(node) => OtherFieldsPersisted(Get(node).config_desc)

\* A Node constructed in a run whose command line set both overlaid fields
\* and a geth option.
C7_Witness ==
    /\ IsSome(node)
    /\ IsSome(CliNodeAddress)
    /\ params["start_geth"]
    /\ Get(node).config_desc.node_name = Get(persisted).node_name

\* Parsing and the processing of the parameters are over.
Validated == pc \notin {"parse", "process"}

CliStartGeth == parser.opts["start_geth"]
CliStartGethPort == parser.opts["start_geth_port"]
CliProtocolId == parser.opts["protocol_id"]

PortWithoutGeth ==
    "start-geth-port makes sense only together with --start-geth"

\* C8: a command line with --start-geth-port and without --start-geth ends
\* in a usage error; with --start-geth on the command line, before or after
\* --start-geth-port or without it, the start-geth-port validator never
\* rejects, and a run that passes validation keeps the port given.
C8_StartGethPortNeedsStartGeth ==
    Validated =>
        /\ (IsSome(CliStartGethPort) /\ IsNone(CliStartGeth)) =>
             pc = "usage_error"
        /\ IsSome(CliStartGeth) => error # PortWithoutGeth
        /\ (InBody /\ IsSome(CliStartGeth)) =>
             /\ params["start_geth"]
             /\ IsSome(CliStartGethPort) =>
                  params["start_geth_port"] = Some(IntOf(Get(CliStartGethPort)))
             /\ IsNone(CliStartGethPort) => params["start_geth_port"] = None

\* --start-geth-port ahead of --start-geth on the command line, accepted.
C8_Witness ==
    /\ argv0 = <<ProgName, "--start-geth-port", "8545", "--start-geth">>
    /\ pc = "returned"
    /\ Get(node).start_geth
    /\ Get(node).start_geth_port = Some(8545)

\* Callbacks of options that are not eager.
NonEagerCallbacks ==
    { "node_address", "rpc_address", "peer", "start_geth_port",
      "geth_address" }

\* The protocol id the command line asks for (None: the built-in one).
CliProtocol ==
    IF IsSome(CliProtocolId) /\ IsIntText(Get(CliProtocolId))
    THEN Some(IntOf(Get(CliProtocolId)))
    ELSE None

\* C9: every callback of an option that is not eager runs after the
\* protocol-id callback and with the protocol constant already at the value
\* the command line asks for, wherever --protocol_id stands; the constant
\* is patched at most once in a run; and log_golem_version logs that value.
C9_ProtocolIdPatchedBeforeOtherValidators ==
    /\ \A i \in 1..Len(cbLog) :
         cbLog[i].cb \in NonEagerCallbacks =>
           /\ \E j \in 1..(i - 1) : cbLog[j].cb = "protocol_id"
           /\ cbLog[i].seen = CliProtocol
    /\ patches <= 1
    /\ Cardinality({ i \in 1..Len(cbLog) : cbLog[i].cb = "protocol_id" }) <= 1
    /\ \A k \in 1..Len(logLines) :
         logLines[k].line = "Protocol Version" =>
           logLines[k].value = CliProtocol /\ protocolId = CliProtocol

\* --protocol_id after --rpc-address on the command line: the rpc-address
\* callback ran with the patch in place and the patched value was logged.
C9_Witness ==
    /\ argv0 = <<ProgName, "--rpc-address", "127.0.0.1:61000",
                 "--protocol_id", "8545">>
    /\ \E i \in 1..Len(cbLog) :
         cbLog[i].cb = "rpc_address" /\ cbLog[i].seen = Some(8545)
    /\ \E k \in 1..Len(logLines) :
         logLines[k].line = "Protocol Version"
           /\ logLines[k].value = Some(8545)

\* The command line holds a value that fails conversion or a cross-field
\* constraint, or the parser rejected it.
InputInvalid ==
    \/ parser.err # NoErr
    \/ parser.largs # <<>>
    \/ IsSome(CliProtocolId) /\ Get(CliProtocolId) # "8545"
    \/ IsSome(CliStartGethPort) /\ Get(CliStartGethPort) # "8545"
    \/ IsSome(CliRpc) /\ Get(CliRpc) # "127.0.0.1:61000"
    \/ IsSome(CliNodeAddress) /\ Get(CliNodeAddress) # "10.0.0.1"
    \/ IsSome(CliStartGethPort) /\ IsNone(CliStartGeth)

\* C10: a run with a usage error exits with a non-zero status before the
\* body of start() runs: nothing was loaded, printed or logged, sys.modules
\* and sys.argv are as they were, no Node exists and no worker module ran;
\* and no run with an invalid command line enters the body.
C10_UsageErrorEndsBeforeBody ==
    /\ pc = "usage_error" =>
         /\ exitCode = Some(2)
         /\ error # NoErr
         /\ trace = <<>>
         /\ persisted = None /\ configDesc = None /\ node = None
         /\ sysModules = sysModules0
         /\ argv = argv0
         /\ stdout = <<>> /\ logLines = <<>>
    /\ (Validated /\ InputInvalid) => pc = "usage_error"

\* A cross-field usage error, with the reactor registered.
C10_Witness ==
    /\ pc = "usage_error"
    /\ error = PortWithoutGeth
    /\ Reactor \in sysModules
    /\ exitCode = Some(2)


(***************************************************************************)
(* Environment shim                                                        *)
(***************************************************************************)
OnOtherPlatform == IsSome(platform) /\ Get(platform) # PackagingPlatform

\* C11: the shim registers the win32com.gen_py placeholders only on the
\* packaging platform: on any other platform no run of start() writes one
\* of those entries into sys.modules.
C11_ShimOnlyOnPackagingPlatform ==
    OnOtherPlatform => sysModules \cap ShimModules = {}


(***************************************************************************)
(* Logger-class guard                                                      *)
(***************************************************************************)
\* The call of the patched getLogger is over: it returned or it raised.
CallEnded == lg.phase \in {"returned", "raised"}

\* C12: after every call of the patched getLogger, the first and every later
\* one, the registered logger class is the class that was registered when
\* the call was made, whatever class the original accessor registered in
\* between; the call delegates to the original accessor exactly once and a
\* call that returns returns the logger the accessor returned.
C12_GetLoggerRestoresLoggerClass ==
    /\ CallEnded =>
           /\ Some(lg.cls) = lg.before
           /\ lg.delegated = 1
    /\ lg.phase = "returned" =>
           /\ IsSome(lg.result)
           /\ lg.returned = lg.result
           /\ Get(lg.returned).name = Get(lg.name)
    /\ lg.phase = "captured" => lg.delegated = 0
    /\ lg.phase = "delegated" => lg.delegated = 1

(***************************************************************************)
(* Fatal errors                                                            *)
(***************************************************************************)
ConfigLoadFailed == error = "ConfigLoadError"

\* C13: a failure to load the persisted configuration is fatal and
\* fail-fast: the run ends with the error, the load was attempted once and
\* is never repeated, no Node is constructed or started and no diagnostic
\* line is logged.
C13_ConfigLoadFailureIsFatal ==
    /\ Count(trace, "load_config") <= 1
    /\ ConfigLoadFailed =>
           /\ pc = "raised"
           /\ exitCode = Some(1)
           /\ Count(trace, "load_config") = 1
           /\ configDesc = None
           /\ node = None
           /\ ~Contains(trace, "Node")
           /\ ~Contains(trace, "node.start")
           /\ ~Contains(trace, "log_golem_version")
           /\ ~Contains(trace, "log_platform_info")
           /\ logLines = <<>>

\* The load failed on a run that asked for the full node, with an RPC
\* endpoint to overlay.
C13_Witness ==
    /\ ConfigLoadFailed
    /\ pc = "raised"
    /\ ~IsWorkerModule(params["m"])
    /\ IsSome(params["rpc_address"])

ImportFailed == error = "ImportError"

\* C14: when the worker module cannot be resolved the import error leaves
\* start() uncaught and ends the run: the import was attempted exactly once,
\* run() is never invoked and the run does not fall through to the node
\* branch.
C14_ImportFailureIsFatal ==
    /\ Count(trace, "import_module") <= 1
    /\ ImportFailed =>
           /\ pc = "raised"
           /\ exitCode = Some(1)
           /\ Count(trace, "import_module") = 1
           /\ ~Contains(trace, "run")
           /\ SENTINEL \notin sysModules
           /\ ~EnteredNode
           /\ node = None
           /\ ~Contains(trace, "Node")
           /\ ~Contains(trace, "node.start")

\* The import failed after the argument vector had been rewritten.
C14_Witness ==
    /\ ImportFailed
    /\ pc = "raised"
    /\ EnteredWorker
    /\ argv # argv0


(***************************************************************************)
(* Order of the full-node branch                                           *)
(***************************************************************************)
\* What a run that starts the node does, in the order of the code.
NodeOrder ==
    << "freeze_support", "delete_reactor", "load_config", "config_logging",
       "install_reactor", "log_golem_version", "log_platform_info", "Node",
       "node.start" >>

IsPrefix(s, t) == Len(s) <= Len(t) /\ SubSeq(t, 1, Len(s)) = s

\* C15: a run that starts the node performs its steps in a fixed order and
\* each exactly once: the configuration is loaded and overlaid, logging is
\* configured and the reactor installed, log_golem_version runs, then
\* log_platform_info, then the Node is constructed, then node.start().  No
\* diagnostic line is logged before logging is configured and the reactor
\* installed, and the Node is constructed from the overlaid descriptor with
\* the data directory, the payments and monitor flags, the peers and the
\* three geth fields of the command line.
C15_NodeBranchOrder ==
    /\ EnteredNode => IsPrefix(trace, NodeOrder)
    /\ (EnteredNode /\ pc = "returned") => trace = NodeOrder
    /\ logLines # <<>> =>
           /\ IsPrefix(SubSeq(NodeOrder, 1, 5), trace)
           /\ Reactor \in sysModules
    /\ (EnteredNode /\ pc = "returned") =>
           /\ Len(logLines) = 6
           /\ logLines[1].line = "GOLEM Version"
           /\ logLines[4].line = "system"
    /\ IsSome(node) =>
           /\ IsPrefix(SubSeq(NodeOrder, 1, 8), trace)
           /\ Overlaid
           /\ OverlayRuleHolds(Get(node).config_desc)
           /\ Get(node).config_desc = Get(configDesc)
           /\ Get(node).datadir = params["datadir"]
           /\ Get(node).transaction_system = params["payments"]
           /\ Get(node).use_monitor = params["monitor"]
           /\ Get(node).peers = params["peer"]
           /\ Get(node).start_geth = params["start_geth"]
           /\ Get(node).start_geth = IsSome(CliStartGeth)
           /\ Get(node).start_geth_port = params["start_geth_port"]
           /\ IsSome(CliStartGethPort) = IsSome(Get(node).start_geth_port)
           /\ Get(node).geth_address = params["geth_address"]

\* The node was started with an overlaid RPC endpoint and with geth.
C15_Witness ==
    /\ pc = "returned"
    /\ Contains(trace, "node.start")
    /\ IsSome(CliRpc)
    /\ Get(node).start_geth
    /\ Get(node).config_desc # Get(persisted)


(***************************************************************************)
(* Configuration and the worker branch                                     *)
(***************************************************************************)
\* The run is one that dispatch hands to the crossbar worker.
WorkerSelected ==
    InBody /\ ~VersionRequested(params) /\ IsWorkerModule(params["m"])

\* C16: the persisted configuration is loaded on the full-node branch only:
\* a run that delegates to the crossbar worker performs no load, so an
\* unreadable configuration store cannot keep the run from delegating.
C16_WorkerRunLoadsNoConfig ==
    WorkerSelected =>
        /\ ~Contains(trace, "load_config")
        /\ ~ConfigLoadFailed
        /\ IsNone(configDesc)


(***************************************************************************)
(* Diagnostics                                                             *)
(***************************************************************************)
DiagnosticFailed == error = "KeyError"

\* C17: a failure to acquire a diagnostic value in log_golem_version or
\* log_platform_info does not abort the bootstrap: the run goes on to
\* construct and start the Node.
C17_DiagnosticFailureDoesNotAbort ==
    DiagnosticFailed =>
        /\ pc # "raised"
        /\ exitCode # Some(1)
        /\ pc = "returned" => Contains(trace, "node.start")

(***************************************************************************)
(* The argument vector of the worker                                       *)
(***************************************************************************)
ArgvErrors == { "ValueError", "IndexError" }

\* C18: whenever dispatch selects the crossbar worker the rewrite of
\* sys.argv succeeds and the module import is reached: sys.argv.index('-m')
\* does not fail, and the two tokens removed are the '-m' and the value the
\* parser took for the option, for each form the parser accepts: '-m value',
\* '-mvalue', and a '-m' token that is the value of an earlier option.
C18_ArgvMutationSucceeds ==
    EnteredWorker =>
        /\ error \notin ArgvErrors
        /\ pc \in {"worker_import", "worker_run", "returned"}
             \/ (pc = "raised" /\ ImportFailed)
        /\ FirstM > 0
        /\ FirstM < Len(argv0)
        /\ Some(argv0[FirstM + 1]) = params["m"]

====
